---------------------------- MODULE Spec2Model ----------------------------
(***************************************************************************)
(* A model of the GCP cloud function trigger of argo-events                *)
(* (sensors/triggers/gcp-cloud-function/gcp-cloud-function.go).            *)
(*                                                                         *)
(* Part I models NewGCPCloudFunctionTrigger, the get-or-create of a        *)
(* cloudfunctions.Service in the gcpClients map, as run by several         *)
(* callers that share the map.  Each caller advances one access of the     *)
(* map, or one stretch of blocking I/O, at a time, so that lookups and     *)
(* stores of different callers interleave as goroutines do.                *)
(*                                                                         *)
(* Part II models the dispatches of one trigger: FetchResource,            *)
(* ApplyResourceParameters, Execute and ApplyPolicy over a heap that holds *)
(* the static template the dispatches share.  triggers.ApplyParams and     *)
(* triggers.ConstructPayload follow sections 4.1 and 4.2 of the            *)
(* specification.                                                          *)
(*                                                                         *)
(* Part III models the controller configuration (controllers/config.go):   *)
(* LoadConfig line by line, viper's watcher goroutine that re-reads the    *)
(* file and runs the registered function, and the version lookups          *)
(* GetNatsStreamingVersion and GetJetStreamVersion that the reconcilers    *)
(* make on the GlobalConfig while the watcher may be writing it.           *)
(***************************************************************************)
EXTENDS Naturals, Sequences, FiniteSets, TLC

\* ------------------------------------------------------------------ bounds
\* Number of goroutines calling NewGCPCloudFunctionTrigger.
NumCallers == 2
\* Number of distinct trigger names (trigger.Template.Name).
NumNames == 2
\* Number of cloudfunctions.Service instances that can be constructed.
MaxClients == 3

Callers == 1..NumCallers
Names == 1..NumNames

\* The nil *cloudfunctions.Service: also what a map lookup yields on a miss.
NoClient == 0
\* A nil error.
NoErr == [msg |-> "nil", cause |-> "nil"]
\* The nil *GCPCloudFunctionTrigger returned beside an error.
NilTrigger == [isNil |-> TRUE, Service |-> NoClient, Name |-> NoClient]
\* No value returned yet.
NoRet == [returned |-> FALSE, trigger |-> NilTrigger, err |-> NoErr]

VARIABLES
  gcpClients,   \* the shared map: a function from the names that have an entry
  pc,           \* each caller's position in NewGCPCloudFunctionTrigger
  tname,        \* trigger.Template.Name of the caller's current call
  gcpClient,    \* the function-scope variable gcpClient of line 35
  ok,           \* the variable ok of line 35
  innerClient,  \* the variable gcpClient declared by := on line 48, in the if block
  ret,          \* what the call returned: (trigger, error)
  nextClient,   \* the next instance cloudfunctions.NewService hands out
  cacheAtCall,  \* history: the map as it was when the latest call began
  attempts,     \* history: cloudfunctions.NewService calls made by the current call
  built,        \* history: clients cloudfunctions.NewService has built, per trigger name
  envFault,     \* history: the first fault the environment presented to the current call
  crashed       \* the runtime ended the process: "fatal error: concurrent map writes"

cacheVars == <<gcpClients, pc, tname, gcpClient, ok, innerClient, ret, nextClient,
               cacheAtCall, attempts, built, envFault, crashed>>

\* ------------------------------------------------- Part II: one dispatch
\* A dispatch runs the four stages of the trigger in order: FetchResource,
\* ApplyResourceParameters, Execute, ApplyPolicy.  The dispatches of one trigger
\* share the *v1alpha1.Trigger, hence its static template.

\* The dispatches that may run at once.
Dispatches == {"d1", "d2"}
\* Longest list of parameter bindings (Parameters) of a template.
MaxBindings == 1

\* The heap address of t.Trigger.Template.GCPCloudFunction.
TemplateAddr == "template"
\* Heap addresses: the static template, and one object per dispatch for the
\* struct json.Unmarshal allocates on line 86.
Addrs == {TemplateAddr} \cup Dispatches

VARIABLES
  heap,           \* address -> *v1alpha1.GCPCloudFunctionTrigger contents
  events,         \* each dispatch's events map
  service,        \* t.Service of the trigger the dispatch uses
  stage,          \* each dispatch's position in the pipeline
  resource,       \* what FetchResource returned
  applied,        \* what ApplyResourceParameters returned: (resource, error)
  execInput,      \* the resource handed to Execute
  request,        \* the CallFunctionRequest sent, with the function name called
  execRet,        \* what Execute returned: (response, error)
  policyRet,      \* what ApplyPolicy returned
  ctxDone,        \* ctx of Execute was cancelled, or its deadline passed, during the call
  remoteCalls,    \* history: Functions.Call(...).Do() calls issued by the current Execute
  payloadBuilt,   \* history: the current Execute called triggers.ConstructPayload
  resolverCalled, \* history: the current ApplyResourceParameters called triggers.ApplyParams
  resolvedBytes,  \* history: JSON of the resource ApplyResourceParameters returned, as of its return
  callOut         \* history: what Functions.Call(...).Do() came back with: (response, error)

dispatchVars == <<heap, events, service, stage, resource, applied, execInput, request,
                  execRet, policyRet, ctxDone, remoteCalls, payloadBuilt,
                  resolverCalled, resolvedBytes, callOut>>

\* State of the controller configuration (Part III).

\* Longest version list of a configuration the lookups are run on.
MaxVersions == 2
\* Longest version list in a configuration file that LoadConfig reads or reloads.
MaxFileVersions == 1

VARIABLES
  config,      \* the *GlobalConfig LoadConfig returned (r), nil after a failed load
  settings,    \* what viper holds from its last successful ReadInConfig
  file,        \* the configuration file on disk
  loadState,   \* where LoadConfig is: "start", "unmarshalled", "watching", then
               \* "loaded" (returned r) or "failed" (returned an error);
               \* "crashed" once a racing lookup has ended the process
  loadErr,     \* the error LoadConfig returned
  watcher,     \* viper's watcher goroutine: "off", "idle", "read", "decoding", "stopped"
  pending,     \* file events the watcher has not taken yet: "none", "write", "remove"
  lastChange,  \* history: how the latest change the watcher took, or missed, went
  hookCalls,   \* history: calls of onErrorReloading made for that change
  hookErr,     \* history: the error handed to onErrorReloading
  query,       \* the latest lookup: which function, which version
  lookupRet    \* what the latest lookup returned: (entry, error)

configVars == <<config, settings, file, loadState, loadErr, watcher, pending,
                lastChange, hookCalls, hookErr, query, lookupRet>>

vars == <<cacheVars, dispatchVars, configVars>>


\* ------------------------------------------------------- pure parts of the code

\* errors.Wrap(err, msg): the message with the underlying cause kept.
Wrap(cause, msg) == [msg |-> msg, cause |-> cause]

\* The empty map: a Go map is a function whose domain is the set of its keys.
EmptyMap == [n \in {} |-> NoClient]

\* Line 35: gcpClient, ok := gcpClients[trigger.Template.Name]; a miss yields the
\* zero value, nil.
LookupClient(cache, name) == IF name \in DOMAIN cache THEN cache[name] ELSE NoClient

LookupOkAlwaysMiss(cache, name) == FALSE

LookupOk(cache, name) == name \in DOMAIN cache

StoreClientOnly(cache, name, c) == [n \in {name} |-> c]

\* Line 52: gcpClients[trigger.Template.Name] = gcpClient
StoreClient(cache, name, c) ==
  [n \in DOMAIN cache \cup {name} |-> IF n = name THEN c ELSE cache[n]]

\* Line 41: errors.Is(err, os.ErrNotExist)
IsNotExist(statErr) == statErr = "ErrNotExist"

CacheOnFailureStores(cache, name, c) == StoreClient(cache, name, c)

\* Lines 38-40, 41-43, 49-51: an early return leaves the map alone.
CacheOnFailure(cache, name, c) == cache

\* Lines 55-60: the trigger returned; Service is the function-scope gcpClient,
\* which the := of line 48 never assigns.
ReturnedTrigger(outer, inner, name) == [isNil |-> FALSE, Service |-> outer, Name |-> name]

\* ------------------------------------------------------------------ actions

CacheInit ==
  /\ gcpClients = EmptyMap
  /\ pc = [p \in Callers |-> "idle"]
  /\ tname = [p \in Callers |-> 1]
  /\ gcpClient = [p \in Callers |-> NoClient]
  /\ ok = [p \in Callers |-> FALSE]
  /\ innerClient = [p \in Callers |-> NoClient]
  /\ ret = [p \in Callers |-> NoRet]
  /\ nextClient = 1
  /\ cacheAtCall = EmptyMap
  /\ attempts = [p \in Callers |-> 0]
  /\ built = [n \in Names |-> 0]
  /\ envFault = [p \in Callers |-> "nil"]
  /\ crashed = FALSE

\* A caller enters NewGCPCloudFunctionTrigger for trigger name n.
NewBegin(p) ==
  /\ ~crashed
  /\ UNCHANGED <<dispatchVars, configVars>>
  /\ pc[p] \in {"idle", "done"}
  /\ \E n \in Names : tname' = [tname EXCEPT ![p] = n]
  /\ pc' = [pc EXCEPT ![p] = "lookup"]
  /\ gcpClient' = [gcpClient EXCEPT ![p] = NoClient]
  /\ ok' = [ok EXCEPT ![p] = FALSE]
  /\ innerClient' = [innerClient EXCEPT ![p] = NoClient]
  /\ ret' = [ret EXCEPT ![p] = NoRet]
  /\ cacheAtCall' = gcpClients
  /\ attempts' = [attempts EXCEPT ![p] = 0]
  /\ envFault' = [envFault EXCEPT ![p] = "nil"]
  /\ UNCHANGED <<gcpClients, nextClient, built, crashed>>

\* Lines 35-36.
NewLookup(p) ==
  /\ ~crashed
  /\ UNCHANGED <<dispatchVars, configVars>>
  /\ pc[p] = "lookup"
  /\ gcpClient' = [gcpClient EXCEPT ![p] = LookupClient(gcpClients, tname[p])]
  /\ ok' = [ok EXCEPT ![p] = LookupOk(gcpClients, tname[p])]
  /\ pc' = [pc EXCEPT ![p] = IF LookupOk(gcpClients, tname[p]) THEN "return" ELSE "construct"]
  /\ UNCHANGED <<gcpClients, tname, innerClient, ret, nextClient, cacheAtCall,
                 attempts, built, envFault, crashed>>

\* An early return of (nil, wrapped error); the locals of the call are gone.
Fail(p, cause, msg) ==
  /\ ret' = [ret EXCEPT ![p] = [returned |-> TRUE, trigger |-> NilTrigger,
                                err |-> Wrap(cause, msg)]]
  /\ gcpClients' = CacheOnFailure(gcpClients, tname[p], innerClient[p])
  /\ innerClient' = [innerClient EXCEPT ![p] = NoClient]
  /\ pc' = [pc EXCEPT ![p] = "done"]

\* Lines 37-51, run on a miss: common.GetSecretFromVolume yields the path or fails;
\* os.Stat returns only for an error that is os.ErrNotExist; cloudfunctions.NewService
\* then builds a fresh client or fails.  The client goes to the gcpClient that :=
\* declares inside the if block.
NewConstruct(p) ==
  /\ ~crashed
  /\ UNCHANGED <<dispatchVars, configVars>>
  /\ pc[p] = "construct"
  /\ \E secretErr \in {"nil", "secret volume unreadable"},
        statErr \in {"nil", "ErrNotExist", "ErrPermission"},
        serviceErr \in {"nil", "handshake failed"} :
       /\ envFault' = [envFault EXCEPT ![p] =
                         IF secretErr # "nil" THEN secretErr
                         ELSE IF statErr = "ErrNotExist" THEN statErr
                         ELSE serviceErr]
       /\ IF secretErr # "nil"
          THEN /\ Fail(p, secretErr, "can not find service account path key")
               /\ UNCHANGED <<nextClient, attempts, built>>
          ELSE IF IsNotExist(statErr)
          THEN /\ Fail(p, statErr, "can not find service account file from CredentialsPath")
               /\ UNCHANGED <<nextClient, attempts, built>>
          ELSE /\ attempts' = [attempts EXCEPT ![p] = @ + 1]
               /\ IF serviceErr # "nil"
                  THEN /\ Fail(p, serviceErr, "failed to create a GCP service")
                       /\ UNCHANGED <<nextClient, built>>
                  ELSE /\ nextClient <= MaxClients
                       /\ innerClient' = [innerClient EXCEPT ![p] = nextClient]
                       /\ nextClient' = nextClient + 1
                       /\ built' = [built EXCEPT ![tname[p]] = @ + 1]
                       /\ pc' = [pc EXCEPT ![p] = "store"]
                       /\ UNCHANGED <<ret, gcpClients>>
  /\ UNCHANGED <<tname, gcpClient, ok, cacheAtCall, crashed>>

\* Line 52.
NewStore(p) ==
  /\ ~crashed
  /\ UNCHANGED <<dispatchVars, configVars>>
  /\ pc[p] = "store"
  /\ gcpClients' = StoreClient(gcpClients, tname[p], innerClient[p])
  /\ pc' = [pc EXCEPT ![p] = "return"]
  /\ UNCHANGED <<tname, gcpClient, ok, innerClient, ret, nextClient, cacheAtCall,
                 attempts, built, envFault, crashed>>

\* Lines 55-60.
NewReturn(p) ==
  /\ ~crashed
  /\ UNCHANGED <<dispatchVars, configVars>>
  /\ pc[p] = "return"
  /\ ret' = [ret EXCEPT ![p] =
               [returned |-> TRUE,
                trigger |-> ReturnedTrigger(gcpClient[p], innerClient[p], tname[p]),
                err |-> NoErr]]
  /\ innerClient' = [innerClient EXCEPT ![p] = NoClient]
  /\ pc' = [pc EXCEPT ![p] = "done"]
  /\ UNCHANGED <<gcpClients, tname, gcpClient, ok, nextClient, cacheAtCall, attempts,
                 built, envFault, crashed>>

\* The map is not synchronized.  A store of one goroutine that overlaps a lookup
\* or a store of another is a data race: the accesses may take effect in either
\* order (the steps above), or the runtime detects the overlap and ends the
\* process with "fatal error: concurrent map writes" (or "... read and map write").
MapRace(p, q) ==
  /\ ~crashed
  /\ UNCHANGED <<dispatchVars, configVars>>
  /\ p # q
  /\ pc[p] = "store"
  /\ pc[q] \in {"lookup", "store"}
  /\ crashed' = TRUE
  /\ UNCHANGED <<gcpClients, pc, tname, gcpClient, ok, innerClient, ret, nextClient,
                 cacheAtCall, attempts, built, envFault>>

\* No call of NewGCPCloudFunctionTrigger is in progress.
Quiescent == \A q \in Callers : pc[q] \in {"idle", "done"}

\* A call that begins only when no other call is in progress.
NewBeginAlone(p) == Quiescent /\ NewBegin(p)


\* ------------------------------------------------- Part II: values and documents

\* JSON values as gjson/sjson see them: a type and the text.
Str(s) == [typ |-> "string", s |-> s]
Num(s) == [typ |-> "number", s |-> s]
\* The absence of a value: a binding without default.
NoValue == [typ |-> "none", s |-> ""]

\* A Go slice that may be nil: Parameters and Payload of the template.
NilList == [isNil |-> TRUE, items |-> <<>>]
ListOf(items) == [isNil |-> FALSE, items |-> items]

\* The zero value of the struct, which also fills the unallocated addresses.
ZeroObj == [FunctionName |-> "", Parameters |-> NilList, Payload |-> NilList]

\* interface{} values handed between the stages: a pointer with its dynamic type.
GCPResource(addr) == [kind |-> "gcp", ptr |-> addr]
\* A resource of another trigger kind.
ForeignResource == [kind |-> "other", ptr |-> TemplateAddr]
NilResource == [kind |-> "nil", ptr |-> TemplateAddr]

\* *cloudfunctions.CallFunctionResponse: nil, or the function's result or error text.
NilResponse == [isNil |-> TRUE, error |-> "", result |-> ""]
OkResponse == [isNil |-> FALSE, error |-> "", result |-> "done"]
FunctionErrorResponse == [isNil |-> FALSE, error |-> "function crashed", result |-> ""]

EventNames == {"e1"}
Paths == {"x"}
PayloadKeys == {"k"}
Values == {Str("v"), Num("7")}
Defaults == {NoValue, Str("d")}
Operations == {"overwrite", "prepend", "append"}

\* Partial functions from keys to values: Go maps and JSON objects.
PartialFunctions(keys, vals) == UNION {[D -> vals] : D \in SUBSET keys}
SeqsUpTo(S, n) == UNION {[1..k -> S] : k \in 0..n}

EventPayloads == PartialFunctions(Paths, Values)
EventSets == PartialFunctions(EventNames, EventPayloads)
TemplateBindings ==
  [src : EventNames, path : Paths, dflt : Defaults, dest : {"functionName"},
   op : Operations]
PayloadBindings ==
  [src : EventNames, path : Paths, dflt : Defaults, dest : PayloadKeys,
   op : {"overwrite"}]
OptLists(S, n) == {NilList} \cup {ListOf(q) : q \in SeqsUpTo(S, n)}
\* The templates a trigger may be defined with.  The payload has one key, so a
\* payload specification of one binding already decides it.
Templates ==
  [FunctionName : {"f"}, Parameters : OptLists(TemplateBindings, MaxBindings),
   Payload : OptLists(PayloadBindings, 1)]

\* ------------------------------------------------- Parameter Resolver (4.1)

MissingEventError == [msg |-> "MissingEventError", cause |-> "event absent"]
PathResolutionError == [msg |-> "PathResolutionError", cause |-> "path unresolved"]
OperationError == [msg |-> "OperationError", cause |-> "destination not a string"]

\* The value a binding's source yields: the event's value at the path, else the
\* default, else an error.
ResolveParamValue(b, evs) ==
  IF b.src \in DOMAIN evs /\ b.path \in DOMAIN evs[b.src]
  THEN [err |-> NoErr, val |-> evs[b.src][b.path]]
  ELSE IF b.dflt # NoValue
  THEN [err |-> NoErr, val |-> b.dflt]
  ELSE IF b.src \notin DOMAIN evs
  THEN [err |-> MissingEventError, val |-> NoValue]
  ELSE [err |-> PathResolutionError, val |-> NoValue]

\* One binding applied to the document at its destination.
ApplyOperation(doc, b, val) ==
  LET cur == doc[b.dest] IN
  CASE b.op = "overwrite" -> [err |-> NoErr, doc |-> [doc EXCEPT ![b.dest] = val]]
    [] b.op = "append" ->
         IF cur.typ = "string"
         THEN [err |-> NoErr, doc |-> [doc EXCEPT ![b.dest] = Str(cur.s \o val.s)]]
         ELSE [err |-> OperationError, doc |-> doc]
    [] b.op = "prepend" ->
         IF cur.typ = "string"
         THEN [err |-> NoErr, doc |-> [doc EXCEPT ![b.dest] = Str(val.s \o cur.s)]]
         ELSE [err |-> OperationError, doc |-> doc]

\* triggers.ApplyParams: the bindings applied in declared order, from the i-th on.
RECURSIVE ApplyParamsFrom(_, _, _, _)
ApplyParamsFrom(doc, bindings, i, evs) ==
  IF i > Len(bindings)
  THEN [err |-> NoErr, doc |-> doc]
  ELSE LET v == ResolveParamValue(bindings[i], evs) IN
       IF v.err # NoErr
       THEN [err |-> v.err, doc |-> doc]
       ELSE LET r == ApplyOperation(doc, bindings[i], v.val) IN
            IF r.err # NoErr THEN r ELSE ApplyParamsFrom(r.doc, bindings, i + 1, evs)

ApplyParams(doc, bindings, evs) == ApplyParamsFrom(doc, bindings, 1, evs)

\* ------------------------------------------------- Payload Constructor (4.2)

EmptyPayload == [k \in {} |-> NoValue]

\* triggers.ConstructPayload: a new document assembled from the bindings.
RECURSIVE ConstructPayloadFrom(_, _, _, _)
ConstructPayloadFrom(data, bindings, i, evs) ==
  IF i > Len(bindings)
  THEN [err |-> NoErr, data |-> data]
  ELSE LET v == ResolveParamValue(bindings[i], evs)
           k == bindings[i].dest IN
       IF v.err # NoErr
       THEN [err |-> v.err, data |-> EmptyPayload]
       ELSE ConstructPayloadFrom(
              [x \in DOMAIN data \cup {k} |-> IF x = k THEN v.val ELSE data[x]],
              bindings, i + 1, evs)

ConstructPayload(evs, payload) == ConstructPayloadFrom(EmptyPayload, payload.items, 1, evs)

\* ------------------------------------------------- Part II: the four stages

\* json.Marshal of the struct (line 75): FunctionName becomes a JSON string, the
\* slices stay lists (a nil slice is null).
Marshal(obj) ==
  [functionName |-> Str(obj.FunctionName), parameters |-> obj.Parameters,
   payload |-> obj.Payload]

UnmarshalError ==
  [msg |-> "failed to unmarshal the updated GCP cloud function trigger resource after applying resource parameters",
   cause |-> "json: cannot unmarshal number into Go struct field of type string"]

\* json.Unmarshal into a new struct (lines 85-88): a JSON string fills FunctionName,
\* null leaves the zero value, a number is an error.
Unmarshal(doc) ==
  IF doc.functionName.typ = "number"
  THEN [err |-> UnmarshalError, obj |-> ZeroObj]
  ELSE [err |-> NoErr,
        obj |-> [FunctionName |-> doc.functionName.s, Parameters |-> doc.parameters,
                 Payload |-> doc.payload]]

UnmarshalIntoResource(d, res) == res.ptr

\* Lines 85-86: var ht *v1alpha1.GCPCloudFunctionTrigger; json.Unmarshal(.., &ht)
\* allocates the struct the resolved template lives in.
UnmarshalTarget(d, res) == d

DeclaresParametersAlways(params) == TRUE

\* Line 80: parameters != nil
DeclaresParameters(params) == ~params.isNil

IsGCPResourceAlways(res) == TRUE

\* Line 96: resource.(*v1alpha1.GCPCloudFunctionTrigger)
IsGCPResource(res) == res.kind = "gcp"

PayloadNotSpecifiedNever(trigger) == FALSE

\* Line 101: trigger.Payload == nil
PayloadNotSpecified(trigger) == trigger.Payload.isNil

InterpretError == [msg |-> "failed to interpret the trigger resource", cause |-> "nil"]
PayloadNotSpecifiedError == [msg |-> "payload parameters are not specified", cause |-> "nil"]
CallError == [msg |-> "googleapi: Error 503", cause |-> "nil"]
PolicyError == [msg |-> "policy: function returned an error", cause |-> "nil"]

\* What Functions.Call(...).Do() can come back with: (response, error).
RemoteOutcomes ==
  {[resp |-> OkResponse, err |-> NoErr],
   [resp |-> FunctionErrorResponse, err |-> NoErr],
   [resp |-> NilResponse, err |-> CallError],
   [resp |-> FunctionErrorResponse, err |-> CallError]}

\* Lines 110-115: the response is returned only beside a nil error.
ExecuteResult(out) ==
  IF out.err # NoErr THEN [resp |-> NilResponse, err |-> out.err]
  ELSE [resp |-> out.resp, err |-> NoErr]

PolicyResultChecksError(resp) == IF resp.error # "" THEN PolicyError ELSE NoErr

\* Lines 119-121: ApplyPolicy returns nil.
PolicyResult(resp) == NoErr

ApplyParamsFailedNever(err) == FALSE

\* Lines 82-84: if err != nil { return nil, err }
ApplyParamsFailed(err) == err # NoErr

ResolvedResourceByValue(addr) == [kind |-> "gcp value", ptr |-> addr]

\* Lines 85, 89: ht is declared *v1alpha1.GCPCloudFunctionTrigger, and it is ht, the
\* pointer, that goes into the interface{} returned.
ResolvedResource(addr) == GCPResource(addr)

TriggerOfTemplate(h, res) == h[TemplateAddr]

\* Line 96: trigger is the struct the resource handed in points to.
TriggerOf(h, res) == h[res.ptr]

\* No bytes: nothing was resolved.
NoBytes == Marshal(ZeroObj)

NoRequest == [sent |-> FALSE, fn |-> "", data |-> EmptyPayload]
NoApplied == [res |-> NilResource, err |-> NoErr]
NoExecRet == [resp |-> NilResponse, err |-> NoErr]
NoEvents == [e \in {} |-> EmptyPayload]

DispatchInit(tmpl) ==
  /\ heap = [a \in Addrs |-> IF a = TemplateAddr THEN tmpl ELSE ZeroObj]
  /\ events = [d \in Dispatches |-> NoEvents]
  /\ service = [d \in Dispatches |-> NoClient]
  /\ stage = [d \in Dispatches |-> "idle"]
  /\ resource = [d \in Dispatches |-> NilResource]
  /\ applied = [d \in Dispatches |-> NoApplied]
  /\ execInput = [d \in Dispatches |-> NilResource]
  /\ request = [d \in Dispatches |-> NoRequest]
  /\ execRet = [d \in Dispatches |-> NoExecRet]
  /\ policyRet = [d \in Dispatches |-> NoErr]
  /\ ctxDone = [d \in Dispatches |-> FALSE]
  /\ remoteCalls = [d \in Dispatches |-> 0]
  /\ payloadBuilt = [d \in Dispatches |-> FALSE]
  /\ resolverCalled = [d \in Dispatches |-> FALSE]
  /\ resolvedBytes = [d \in Dispatches |-> NoBytes]
  /\ callOut = [d \in Dispatches |-> NoExecRet]

\* A nil t.Service dereferenced on line 110 panics, which ends the process.
NoPanic == \A d \in Dispatches : stage[d] # "panic"

\* The dispatch is over: its last stage returned, or a stage returned an error.
Over(d) ==
  \/ stage[d] \in {"idle", "finished"}
  \/ stage[d] = "applied" /\ applied[d].err # NoErr
  \/ stage[d] = "executed" /\ execRet[d].err # NoErr

\* The sensor starts a dispatch: it holds an events map and a trigger whose Service
\* is what NewGCPCloudFunctionTrigger put there.
DispatchBegin(d) ==
  /\ UNCHANGED <<cacheVars, configVars>>
  /\ NoPanic
  /\ Over(d)
  /\ \E evs \in EventSets : events' = [events EXCEPT ![d] = evs]
  /\ \E c \in {NoClient, 1} : service' = [service EXCEPT ![d] = c]
  /\ stage' = [stage EXCEPT ![d] = "begun"]
  /\ heap' = [heap EXCEPT ![d] = ZeroObj]
  /\ resource' = [resource EXCEPT ![d] = NilResource]
  /\ applied' = [applied EXCEPT ![d] = NoApplied]
  /\ execInput' = [execInput EXCEPT ![d] = NilResource]
  /\ request' = [request EXCEPT ![d] = NoRequest]
  /\ execRet' = [execRet EXCEPT ![d] = NoExecRet]
  /\ policyRet' = [policyRet EXCEPT ![d] = NoErr]
  /\ ctxDone' = [ctxDone EXCEPT ![d] = FALSE]
  /\ remoteCalls' = [remoteCalls EXCEPT ![d] = 0]
  /\ payloadBuilt' = [payloadBuilt EXCEPT ![d] = FALSE]
  /\ resolverCalled' = [resolverCalled EXCEPT ![d] = FALSE]
  /\ resolvedBytes' = [resolvedBytes EXCEPT ![d] = NoBytes]
  /\ callOut' = [callOut EXCEPT ![d] = NoExecRet]

\* Lines 69-71: the pointer to the static template itself.
FetchResource(d) ==
  /\ UNCHANGED <<cacheVars, configVars>>
  /\ NoPanic
  /\ stage[d] = "begun"
  /\ resource' = [resource EXCEPT ![d] = GCPResource(TemplateAddr)]
  /\ stage' = [stage EXCEPT ![d] = "fetched"]
  /\ UNCHANGED <<heap, events, service, applied, execInput, request, execRet,
                 policyRet, ctxDone, remoteCalls, payloadBuilt, resolverCalled,
                 resolvedBytes, callOut>>

\* Lines 74-92.
ApplyResourceParameters(d) ==
  /\ UNCHANGED <<cacheVars, configVars>>
  /\ NoPanic
  /\ stage[d] = "fetched"
  /\ LET parameters == heap[TemplateAddr].Parameters
         resourceBytes == Marshal(heap[resource[d].ptr])
         updated == ApplyParams(resourceBytes, parameters.items, events[d])
         ht == Unmarshal(updated.doc)
         target == UnmarshalTarget(d, resource[d])
     IN IF DeclaresParameters(parameters)
        THEN /\ resolverCalled' = [resolverCalled EXCEPT ![d] = TRUE]
             /\ IF ApplyParamsFailed(updated.err)
                THEN /\ applied' = [applied EXCEPT ![d] = [res |-> NilResource,
                                                           err |-> updated.err]]
                     /\ resolvedBytes' = [resolvedBytes EXCEPT ![d] = NoBytes]
                     /\ heap' = heap
                ELSE IF ht.err # NoErr
                THEN /\ applied' = [applied EXCEPT ![d] = [res |-> NilResource,
                                                           err |-> ht.err]]
                     /\ resolvedBytes' = [resolvedBytes EXCEPT ![d] = NoBytes]
                     /\ heap' = heap
                ELSE /\ applied' = [applied EXCEPT ![d] = [res |-> ResolvedResource(target),
                                                           err |-> NoErr]]
                     /\ resolvedBytes' = [resolvedBytes EXCEPT ![d] = Marshal(ht.obj)]
                     /\ heap' = [heap EXCEPT ![target] = ht.obj]
        ELSE /\ resolverCalled' = [resolverCalled EXCEPT ![d] = FALSE]
             /\ applied' = [applied EXCEPT ![d] = [res |-> resource[d], err |-> NoErr]]
             /\ resolvedBytes' = [resolvedBytes EXCEPT ![d] = resourceBytes]
             /\ heap' = heap
  /\ stage' = [stage EXCEPT ![d] = "applied"]
  /\ UNCHANGED <<events, service, resource, execInput, request, execRet, policyRet,
                 ctxDone, remoteCalls, payloadBuilt, callOut>>

\* Execute returns (nil, err) before any remote call.
ExecuteFails(d, err) ==
  /\ execRet' = [execRet EXCEPT ![d] = [resp |-> NilResponse, err |-> err]]
  /\ stage' = [stage EXCEPT ![d] = "executed"]
  /\ UNCHANGED <<request, remoteCalls>>

\* Lines 95-110: Execute up to the point where the remote call is on its way.  The
\* caller hands in the resolved template, or a resource of another kind.
ExecuteCall(d) ==
  /\ UNCHANGED <<cacheVars, configVars>>
  /\ NoPanic
  /\ stage[d] = "applied"
  /\ applied[d].err = NoErr
  /\ \E r \in {applied[d].res, ForeignResource} :
       LET trigger == TriggerOf(heap, r)
           payload == ConstructPayload(events[d], trigger.Payload)
       IN /\ execInput' = [execInput EXCEPT ![d] = r]
          /\ IF ~IsGCPResource(r)
             THEN ExecuteFails(d, InterpretError) /\ UNCHANGED payloadBuilt
             ELSE IF PayloadNotSpecified(trigger)
             THEN ExecuteFails(d, PayloadNotSpecifiedError) /\ UNCHANGED payloadBuilt
             ELSE /\ payloadBuilt' = [payloadBuilt EXCEPT ![d] = TRUE]
                  /\ IF payload.err # NoErr
                     THEN ExecuteFails(d, payload.err)
                     ELSE IF service[d] = NoClient
                     THEN /\ stage' = [stage EXCEPT ![d] = "panic"]
                          /\ UNCHANGED <<request, remoteCalls, execRet>>
                     ELSE /\ request' = [request EXCEPT ![d] =
                                           [sent |-> TRUE, fn |-> trigger.FunctionName,
                                            data |-> payload.data]]
                          /\ remoteCalls' = [remoteCalls EXCEPT ![d] = @ + 1]
                          /\ stage' = [stage EXCEPT ![d] = "calling"]
                          /\ UNCHANGED execRet
  /\ UNCHANGED <<heap, events, service, resource, applied, policyRet, ctxDone,
                 resolverCalled, resolvedBytes, callOut>>

\* The caller cancels ctx, or its deadline passes, while the call is in flight.
CtxCancel(d) ==
  /\ UNCHANGED <<cacheVars, configVars>>
  /\ NoPanic
  /\ stage[d] = "calling"
  /\ ~ctxDone[d]
  /\ ctxDone' = [ctxDone EXCEPT ![d] = TRUE]
  /\ UNCHANGED <<heap, events, service, stage, resource, applied, execInput, request,
                 execRet, policyRet, remoteCalls, payloadBuilt, resolverCalled,
                 resolvedBytes, callOut>>

\* Lines 110-115: Do() comes back, which does not depend on ctx: the call was built
\* without it.
ExecuteReturn(d) ==
  /\ UNCHANGED <<cacheVars, configVars>>
  /\ NoPanic
  /\ stage[d] = "calling"
  /\ \E out \in RemoteOutcomes :
       /\ callOut' = [callOut EXCEPT ![d] = out]
       /\ execRet' = [execRet EXCEPT ![d] = ExecuteResult(out)]
  /\ stage' = [stage EXCEPT ![d] = "executed"]
  /\ UNCHANGED <<heap, events, service, resource, applied, execInput, request,
                 policyRet, ctxDone, remoteCalls, payloadBuilt, resolverCalled,
                 resolvedBytes>>

\* Lines 119-121, called with the response Execute returned.
ApplyPolicy(d) ==
  /\ UNCHANGED <<cacheVars, configVars>>
  /\ NoPanic
  /\ stage[d] = "executed"
  /\ execRet[d].err = NoErr
  /\ policyRet' = [policyRet EXCEPT ![d] = PolicyResult(execRet[d].resp)]
  /\ stage' = [stage EXCEPT ![d] = "finished"]
  /\ UNCHANGED <<heap, events, service, resource, applied, execInput, request,
                 execRet, ctxDone, remoteCalls, payloadBuilt, resolverCalled,
                 resolvedBytes, callOut>>

\* ------------------------------------------------- Part III: configuration

VersionNames == {"v1", "v2"}
ImageNames == {"img-a", "img-b"}
\* The versions asked for: the configured ones and one that never is.
QueryVersions == VersionNames \cup {"v9"}

\* Lines 24-28 and 35-41: an entry of a version table (one image for each).
NatsStreamingVersions == [Version : VersionNames, NatsStreamingImage : ImageNames]
JetStreamVersions == [Version : VersionNames, NatsImage : ImageNames]

\* Lines 15-22, 30-33: the pointers of EventBusConfig, nil or a section with its
\* Versions.
NilNATS == [isNil |-> TRUE, Versions |-> <<>>]
NilJetStream == [isNil |-> TRUE, Versions |-> <<>>]
NatsStreamingConfigs(n) ==
  {NilNATS} \cup {[isNil |-> FALSE, Versions |-> vs] :
                    vs \in SeqsUpTo(NatsStreamingVersions, n)}
JetStreamConfigs(n) ==
  {NilJetStream} \cup {[isNil |-> FALSE, Versions |-> vs] :
                         vs \in SeqsUpTo(JetStreamVersions, n)}

NilEventBus == [isNil |-> TRUE, NATS |-> NilNATS, JetStream |-> NilJetStream]
EventBusConfigs(n) ==
  {NilEventBus} \cup {[isNil |-> FALSE, NATS |-> a, JetStream |-> b] :
                        a \in NatsStreamingConfigs(n), b \in JetStreamConfigs(n)}

\* Lines 11-13.  A nil *GlobalConfig is what a failed LoadConfig returns.
NilConfig == [isNil |-> TRUE, EventBus |-> NilEventBus]
\* Line 104: r := &GlobalConfig{}
ZeroConfig == [isNil |-> FALSE, EventBus |-> NilEventBus]
GlobalConfigs(n) == {[isNil |-> FALSE, EventBus |-> eb] : eb \in EventBusConfigs(n)}

\* The pointers the lookups return: nil, or the address of r, the loop variable that
\* holds a copy of the entry.
NilNatsStreamingVersion == [isNil |-> TRUE, Version |-> "", NatsStreamingImage |-> ""]
NilJetStreamVersion == [isNil |-> TRUE, Version |-> "", NatsImage |-> ""]
NatsStreamingVersionPtr(r) ==
  [isNil |-> FALSE, Version |-> r.Version, NatsStreamingImage |-> r.NatsStreamingImage]
JetStreamVersionPtr(r) ==
  [isNil |-> FALSE, Version |-> r.Version, NatsImage |-> r.NatsImage]

\* The errors of the lookups; the last one quotes the version asked for and the
\* supported versions.
NoLookupErr == [msg |-> "nil", version |-> "", supported |-> <<>>]
NatsNotFoundError ==
  [msg |-> "\"eventBus.nats\" not found in the configuration", version |-> "",
   supported |-> <<>>]
NatsVersionsNotFoundError ==
  [msg |-> "nats streaming version configuration not found", version |-> "",
   supported |-> <<>>]
JetStreamNotFoundError ==
  [msg |-> "\"eventBus.jetstream\" not found in the configuration", version |-> "",
   supported |-> <<>>]
JetStreamVersionsNotFoundError ==
  [msg |-> "jetstream version configuration not found", version |-> "",
   supported |-> <<>>]
UnsupportedVersionError(version, supported) ==
  [msg |-> "unsupported version, supported versions", version |-> version,
   supported |-> supported]

\* Lines 43-52 and 54-63: the Version of every entry, in order; empty without the
\* section.
supportedNatsStreamingVersions(g) ==
  IF g.EventBus.isNil \/ g.EventBus.NATS.isNil THEN <<>>
  ELSE [i \in 1..Len(g.EventBus.NATS.Versions) |-> g.EventBus.NATS.Versions[i].Version]
supportedJetStreamVersions(g) ==
  IF g.EventBus.isNil \/ g.EventBus.JetStream.isNil THEN <<>>
  ELSE [i \in 1..Len(g.EventBus.JetStream.Versions) |->
          g.EventBus.JetStream.Versions[i].Version]

\* The range loops of lines 72-76 and 87-91, from the i-th entry on: the index at
\* which the loop returns, or 0 when it runs to the end.
RECURSIVE RangeVersions(_, _, _)
RangeVersions(versions, version, i) ==
  IF i > Len(versions) THEN 0
  ELSE IF versions[i].Version = version THEN i
  ELSE RangeVersions(versions, version, i + 1)

VersionIndexLast(versions, version) ==
  IF \E i \in 1..Len(versions) : versions[i].Version = version
  THEN CHOOSE i \in 1..Len(versions) :
         /\ versions[i].Version = version
         /\ \A j \in (i + 1)..Len(versions) : versions[j].Version # version
  ELSE 0

VersionIndex(versions, version) == RangeVersions(versions, version, 1)

\* Lines 65-78.
NatsStreamingVersionOf(g, version) ==
  IF g.EventBus.isNil \/ g.EventBus.NATS.isNil
  THEN [entry |-> NilNatsStreamingVersion, err |-> NatsNotFoundError]
  ELSE IF Len(g.EventBus.NATS.Versions) = 0
  THEN [entry |-> NilNatsStreamingVersion, err |-> NatsVersionsNotFoundError]
  ELSE LET i == VersionIndex(g.EventBus.NATS.Versions, version) IN
       IF i # 0
       THEN [entry |-> NatsStreamingVersionPtr(g.EventBus.NATS.Versions[i]),
             err |-> NoLookupErr]
       ELSE [entry |-> NilNatsStreamingVersion,
             err |-> UnsupportedVersionError(version, supportedNatsStreamingVersions(g))]

\* Lines 80-93.
JetStreamVersionOf(g, version) ==
  IF g.EventBus.isNil \/ g.EventBus.JetStream.isNil
  THEN [entry |-> NilJetStreamVersion, err |-> JetStreamNotFoundError]
  ELSE IF Len(g.EventBus.JetStream.Versions) = 0
  THEN [entry |-> NilJetStreamVersion, err |-> JetStreamVersionsNotFoundError]
  ELSE LET i == VersionIndex(g.EventBus.JetStream.Versions, version) IN
       IF i # 0
       THEN [entry |-> JetStreamVersionPtr(g.EventBus.JetStream.Versions[i]),
             err |-> NoLookupErr]
       ELSE [entry |-> NilJetStreamVersion,
             err |-> UnsupportedVersionError(version, supportedJetStreamVersions(g))]

\* What the configuration file says under eventBus for one section: no such key, a
\* value that is not a section (a number, say), or the section with its versions.
AbsentKey == [kind |-> "absent", versions |-> <<>>]
BadValue == [kind |-> "bad", versions |-> <<>>]
VersionsValue(vs) == [kind |-> "list", versions |-> vs]
\* The entries the files are written with: each version with an image of its own.
FileNatsStreamingVersions ==
  {[Version |-> "v1", NatsStreamingImage |-> "img-a"],
   [Version |-> "v2", NatsStreamingImage |-> "img-b"]}
FileJetStreamVersions ==
  {[Version |-> "v1", NatsImage |-> "img-a"], [Version |-> "v2", NatsImage |-> "img-b"]}
NatsSettings(n) ==
  {AbsentKey, BadValue} \cup
  {VersionsValue(vs) : vs \in SeqsUpTo(FileNatsStreamingVersions, n)}
JetStreamSettings(n) ==
  {AbsentKey, BadValue} \cup
  {VersionsValue(vs) : vs \in SeqsUpTo(FileJetStreamVersions, n)}

\* A file that is not YAML, and no file at all: ReadInConfig fails on both.
Garbled == [state |-> "garbled", nats |-> AbsentKey, jetstream |-> AbsentKey]
Missing == [state |-> "missing", nats |-> AbsentKey, jetstream |-> AbsentKey]
NoSettings == [state |-> "yaml", nats |-> AbsentKey, jetstream |-> AbsentKey]
FileContents ==
  {Garbled, Missing} \cup [state : {"yaml"}, nats : NatsSettings(MaxFileVersions),
                           jetstream : JetStreamSettings(MaxFileVersions)]
\* ReadInConfig succeeds on the file.
Parses(c) == c.state = "yaml"

ReadError == [msg |-> "failed to load configuration file", cause |-> "config file unreadable"]
DecodeError == [msg |-> "error(s) decoding", cause |-> "expected a map"]
UnmarshalConfigError == [msg |-> "failed unmarshal configuration file", cause |-> DecodeError.msg]

\* One pointer field of EventBusConfig decoded from its key: a key that is absent
\* leaves the field as it is, and so does a value that fails to decode.
DecodeSection(old, s) ==
  IF s.kind = "list" THEN [isNil |-> FALSE, Versions |-> s.versions] ELSE old

\* Lines 105 and 111: v.Unmarshal(r) decodes viper's settings into the struct r
\* points to, field by field, for the keys the settings have.  Without the eventBus
\* key r is left as it is.  With it, an EventBus that is nil is allocated and set
\* only if its decoding succeeds; one that exists is decoded in place.
DecodeInto(g, c) ==
  LET touched == c.nats.kind # "absent" \/ c.jetstream.kind # "absent"
      err == IF c.nats.kind = "bad" \/ c.jetstream.kind = "bad"
             THEN DecodeError ELSE NoErr
      eb == [isNil |-> FALSE,
             NATS |-> DecodeSection(g.EventBus.NATS, c.nats),
             JetStream |-> DecodeSection(g.EventBus.JetStream, c.jetstream)]
  IN [err |-> err,
      config |-> IF ~touched \/ (g.EventBus.isNil /\ err # NoErr) THEN g
                 ELSE [g EXCEPT !.EventBus = eb]]

\* Lines 112-114: if err != nil { onErrorReloading(err) }
OnErrorReloadingCalls(err) == IF err # NoErr THEN 1 ELSE 0

\* What a read of r, or of what r points to, can see while v.Unmarshal(r) is
\* writing it in another goroutine with no lock between them: each field as it
\* was or as it will be.  g is r before the decoding and h is r after it.
TornNatsStreamingVersion(a, b) ==
  {[Version |-> v, NatsStreamingImage |-> i] :
     v \in {a.Version, b.Version}, i \in {a.NatsStreamingImage, b.NatsStreamingImage}}
TornJetStreamVersion(a, b) ==
  {[Version |-> v, NatsImage |-> i] :
     v \in {a.Version, b.Version}, i \in {a.NatsImage, b.NatsImage}}

\* The lists a read of Versions can see when the slice header it reads says n
\* entries: an entry both lists have may be half written, any other is whole.
TornNatsStreamingLists(av, bv, n) ==
  {s \in [1..n -> NatsStreamingVersions] :
     \A k \in 1..n :
       s[k] \in IF k <= Len(av) /\ k <= Len(bv)
                THEN TornNatsStreamingVersion(av[k], bv[k])
                ELSE IF k <= Len(av) THEN {av[k]} ELSE {bv[k]}}
TornJetStreamLists(av, bv, n) ==
  {s \in [1..n -> JetStreamVersions] :
     \A k \in 1..n :
       s[k] \in IF k <= Len(av) /\ k <= Len(bv)
                THEN TornJetStreamVersion(av[k], bv[k])
                ELSE IF k <= Len(av) THEN {av[k]} ELSE {bv[k]}}

\* A lookup reads the slice header three times: len(...) on line 69 (84), the
\* range of line 72 (87), and the range of line 48 (59) for the supported versions
\* of its last error.  The writer may replace the header between any two of them:
\* the lengths the three reads see, for an old length la and a new length lb.
HeaderOrders(la, lb) == {<<la, la, la>>, <<la, la, lb>>, <<la, lb, lb>>, <<lb, lb, lb>>}

\* Lines 65-78 on what the three reads saw: n from line 69, versions from line 72,
\* supported from line 48.
RacingNatsStreamingVersionOf(n, versions, supported, version) ==
  IF n = 0
  THEN [entry |-> NilNatsStreamingVersion, err |-> NatsVersionsNotFoundError]
  ELSE LET i == VersionIndex(versions, version) IN
       IF i # 0
       THEN [entry |-> NatsStreamingVersionPtr(versions[i]), err |-> NoLookupErr]
       ELSE [entry |-> NilNatsStreamingVersion,
             err |-> UnsupportedVersionError(version,
                       [k \in 1..Len(supported) |-> supported[k].Version])]
\* Lines 80-93 likewise.
RacingJetStreamVersionOf(n, versions, supported, version) ==
  IF n = 0
  THEN [entry |-> NilJetStreamVersion, err |-> JetStreamVersionsNotFoundError]
  ELSE LET i == VersionIndex(versions, version) IN
       IF i # 0
       THEN [entry |-> JetStreamVersionPtr(versions[i]), err |-> NoLookupErr]
       ELSE [entry |-> NilJetStreamVersion,
             err |-> UnsupportedVersionError(version,
                       [k \in 1..Len(supported) |-> supported[k].Version])]

\* What a lookup can return while v.Unmarshal(r) takes r from g to h.  A section
\* that was nil is seen as nil, or through the pointer to the decoded section; one
\* that exists is decoded in place, and the three reads see it as above.
RacingNatsStreamingAnswers(g, h, version) ==
  LET a == g.EventBus.NATS
      b == h.EventBus.NATS
  IN IF g.EventBus.isNil \/ a.isNil
     THEN {NatsStreamingVersionOf(g, version), NatsStreamingVersionOf(h, version)}
     ELSE UNION {{RacingNatsStreamingVersionOf(o[1], versions, supported, version) :
                    versions \in TornNatsStreamingLists(a.Versions, b.Versions, o[2]),
                    supported \in TornNatsStreamingLists(a.Versions, b.Versions, o[3])} :
                 o \in HeaderOrders(Len(a.Versions), Len(b.Versions))}
RacingJetStreamAnswers(g, h, version) ==
  LET a == g.EventBus.JetStream
      b == h.EventBus.JetStream
  IN IF g.EventBus.isNil \/ a.isNil
     THEN {JetStreamVersionOf(g, version), JetStreamVersionOf(h, version)}
     ELSE UNION {{RacingJetStreamVersionOf(o[1], versions, supported, version) :
                    versions \in TornJetStreamLists(a.Versions, b.Versions, o[2]),
                    supported \in TornJetStreamLists(a.Versions, b.Versions, o[3])} :
                 o \in HeaderOrders(Len(a.Versions), Len(b.Versions))}

\* A read of the slice header while it is replaced by one for a longer list can mix
\* the old address with the new length: the loop then reads past the old list, and
\* the process ends in a fault.
HeaderFault(a, b) == ~a.isNil /\ ~b.isNil /\ Len(b.Versions) > Len(a.Versions)

NoQuery == [kind |-> "none", version |-> ""]
NoLookupRet == [entry |-> NilNatsStreamingVersion, err |-> NoLookupErr]

\* The controller has not called LoadConfig.
ConfigInit ==
  /\ config = NilConfig
  /\ settings = NoSettings
  /\ file = NoSettings
  /\ loadState = "start"
  /\ loadErr = NoErr
  /\ watcher = "off"
  /\ pending = "none"
  /\ lastChange = "none"
  /\ hookCalls = 0
  /\ hookErr = NoErr
  /\ query = NoQuery
  /\ lookupRet = NoLookupRet

\* A controller that holds the GlobalConfig g, loaded without error, with the
\* watcher at rest.
ConfigLoaded(g) ==
  /\ config = g
  /\ settings = NoSettings
  /\ file = NoSettings
  /\ loadState = "loaded"
  /\ loadErr = NoErr
  /\ watcher = "idle"
  /\ pending = "none"
  /\ lastChange = "none"
  /\ hookCalls = 0
  /\ hookErr = NoErr
  /\ query = NoQuery
  /\ lookupRet = NoLookupRet

\* The result of a lookup is gone once its caller has used it: it is kept only up
\* to the next step of LoadConfig, the file or the watcher.
ResultDropped == query' = NoQuery /\ lookupRet' = NoLookupRet

\* Lines 96-108, with the file as it is at startup: ReadInConfig, then Unmarshal
\* into a new GlobalConfig.  On an error LoadConfig returns (nil, error), and the
\* caller (cmd.Start) logs it and exits.
LoadConfigRead ==
  /\ UNCHANGED <<cacheVars, dispatchVars>>
  /\ ResultDropped
  /\ loadState = "start"
  /\ \E c \in FileContents :
       LET dec == DecodeInto(ZeroConfig, c) IN
       /\ file' = c
       /\ IF ~Parses(c)
          THEN /\ loadState' = "failed"
               /\ loadErr' = ReadError
               /\ UNCHANGED <<config, settings>>
          ELSE IF dec.err # NoErr
          THEN /\ loadState' = "failed"
               /\ loadErr' = UnmarshalConfigError
               /\ settings' = c
               /\ UNCHANGED config
          ELSE /\ loadState' = "unmarshalled"
               /\ loadErr' = NoErr
               /\ settings' = c
               /\ config' = dec.config
  /\ UNCHANGED <<watcher, pending, lastChange, hookCalls, hookErr>>

\* Line 109: v.WatchConfig() starts the watcher goroutine; no function to call on
\* a change is registered yet.
LoadConfigWatch ==
  /\ UNCHANGED <<cacheVars, dispatchVars>>
  /\ ResultDropped
  /\ loadState = "unmarshalled"
  /\ loadState' = "watching"
  /\ watcher' = "idle"
  /\ UNCHANGED <<config, settings, file, loadErr, pending, lastChange, hookCalls,
                 hookErr>>

\* Lines 110-116: v.OnConfigChange registers the function, and LoadConfig returns r.
LoadConfigRegister ==
  /\ UNCHANGED <<cacheVars, dispatchVars>>
  /\ ResultDropped
  /\ loadState = "watching"
  /\ loadState' = "loaded"
  /\ UNCHANGED <<config, settings, file, loadErr, watcher, pending, lastChange,
                 hookCalls, hookErr>>

\* The watcher goroutine is running.
Watching == watcher \in {"idle", "read", "decoding"}

\* Somebody rewrites, garbles or removes the file after LoadConfig has read it.  A
\* running watcher gets an event for it; a removal, once taken, ends the watcher.
\* The file changes no faster than the watcher deals with the changes: the next
\* one comes when the watcher is at rest.
FileWrite(c) ==
  /\ UNCHANGED <<cacheVars, dispatchVars>>
  /\ ResultDropped
  /\ loadState \in {"unmarshalled", "watching", "loaded"}
  /\ watcher \in {"off", "idle", "stopped"}
  /\ pending = "none"
  /\ c # file
  /\ file' = c
  /\ IF Watching
     THEN /\ pending' = IF c = Missing THEN "remove" ELSE "write"
          /\ UNCHANGED <<lastChange, hookCalls, hookErr>>
     ELSE /\ lastChange' = "unwatched"
          /\ hookCalls' = 0
          /\ hookErr' = NoErr
          /\ UNCHANGED pending
  /\ UNCHANGED <<config, settings, loadState, loadErr, watcher>>

\* The watcher takes the events: for a removal it returns; otherwise it calls
\* v.ReadInConfig(), which replaces viper's settings only if the file parses.
WatchConfigRead ==
  /\ UNCHANGED <<cacheVars, dispatchVars>>
  /\ ResultDropped
  /\ watcher = "idle"
  /\ pending # "none"
  /\ pending' = "none"
  /\ hookCalls' = 0
  /\ hookErr' = NoErr
  /\ IF pending = "remove"
     THEN /\ watcher' = "stopped"
          /\ lastChange' = "removed"
          /\ UNCHANGED settings
     ELSE /\ watcher' = "read"
          /\ settings' = IF Parses(file) THEN file ELSE settings
          /\ lastChange' = IF Parses(file) THEN "read" ELSE "read failed"
  /\ UNCHANGED <<config, file, loadState, loadErr>>

\* After the read the watcher finds no function registered (line 110 has not run):
\* nothing decodes the new settings into r.
WatchConfigNoHandler ==
  /\ UNCHANGED <<cacheVars, dispatchVars>>
  /\ ResultDropped
  /\ watcher = "read"
  /\ loadState = "watching"
  /\ watcher' = "idle"
  /\ lastChange' = "unhandled"
  /\ UNCHANGED <<config, settings, file, loadState, loadErr, pending, hookCalls,
                 hookErr>>

\* After the read the watcher calls the function of lines 110-115, which enters
\* v.Unmarshal(r) (line 111).
OnConfigChangeBegin ==
  /\ UNCHANGED <<cacheVars, dispatchVars>>
  /\ ResultDropped
  /\ watcher = "read"
  /\ loadState = "loaded"
  /\ watcher' = "decoding"
  /\ UNCHANGED <<config, settings, file, loadState, loadErr, pending, lastChange,
                 hookCalls, hookErr>>

\* Lines 111-115: v.Unmarshal(r) has written r, and its error goes to
\* onErrorReloading.
OnConfigChangeEnd ==
  /\ UNCHANGED <<cacheVars, dispatchVars>>
  /\ ResultDropped
  /\ watcher = "decoding"
  /\ LET dec == DecodeInto(config, settings)
     IN /\ config' = dec.config
        /\ hookCalls' = OnErrorReloadingCalls(dec.err)
        /\ hookErr' = dec.err
        /\ lastChange' = IF lastChange = "read failed" THEN "read failed"
                         ELSE IF dec.err # NoErr THEN "unmarshal failed"
                         ELSE "reloaded"
  /\ watcher' = "idle"
  /\ UNCHANGED <<settings, file, loadState, loadErr, pending>>

\* Lines 65-78, called on the GlobalConfig the controller holds while nothing
\* writes it.
GetNatsStreamingVersion(version) ==
  /\ UNCHANGED <<cacheVars, dispatchVars>>
  /\ loadState = "loaded"
  /\ watcher # "decoding"
  /\ query' = [kind |-> "nats", version |-> version]
  /\ lookupRet' = NatsStreamingVersionOf(config, version)
  /\ UNCHANGED <<config, settings, file, loadState, loadErr, watcher, pending,
                 lastChange, hookCalls, hookErr>>

\* Lines 80-93, likewise.
GetJetStreamVersion(version) ==
  /\ UNCHANGED <<cacheVars, dispatchVars>>
  /\ loadState = "loaded"
  /\ watcher # "decoding"
  /\ query' = [kind |-> "jetstream", version |-> version]
  /\ lookupRet' = JetStreamVersionOf(config, version)
  /\ UNCHANGED <<config, settings, file, loadState, loadErr, watcher, pending,
                 lastChange, hookCalls, hookErr>>

\* Lines 65-78 in a reconciler goroutine while the watcher goroutine is inside
\* v.Unmarshal(r): a data race on what r points to.
GetNatsStreamingVersionRacing(version) ==
  /\ UNCHANGED <<cacheVars, dispatchVars>>
  /\ loadState = "loaded"
  /\ watcher = "decoding"
  /\ query' = [kind |-> "nats", version |-> version]
  /\ lookupRet' \in RacingNatsStreamingAnswers(config, DecodeInto(config, settings).config, version)
  /\ UNCHANGED <<config, settings, file, loadState, loadErr, watcher, pending,
                 lastChange, hookCalls, hookErr>>

\* Lines 80-93, likewise.
GetJetStreamVersionRacing(version) ==
  /\ UNCHANGED <<cacheVars, dispatchVars>>
  /\ loadState = "loaded"
  /\ watcher = "decoding"
  /\ query' = [kind |-> "jetstream", version |-> version]
  /\ lookupRet' \in RacingJetStreamAnswers(config, DecodeInto(config, settings).config, version)
  /\ UNCHANGED <<config, settings, file, loadState, loadErr, watcher, pending,
                 lastChange, hookCalls, hookErr>>

\* Lines 69-72 (44-48) in a reconciler goroutine while v.Unmarshal(r) replaces the
\* slice header of the NATS versions by one for a longer list: the lookup reads a
\* mixed header and the process ends.
GetNatsStreamingVersionFault(version) ==
  /\ UNCHANGED <<cacheVars, dispatchVars>>
  /\ loadState = "loaded"
  /\ watcher = "decoding"
  /\ HeaderFault(config.EventBus.NATS, DecodeInto(config, settings).config.EventBus.NATS)
  /\ query' = [kind |-> "nats", version |-> version]
  /\ lookupRet' = NoLookupRet
  /\ loadState' = "crashed"
  /\ watcher' = "stopped"
  /\ UNCHANGED <<config, settings, file, loadErr, pending, lastChange, hookCalls,
                 hookErr>>

\* Lines 84-87 (55-59), likewise.
GetJetStreamVersionFault(version) ==
  /\ UNCHANGED <<cacheVars, dispatchVars>>
  /\ loadState = "loaded"
  /\ watcher = "decoding"
  /\ HeaderFault(config.EventBus.JetStream,
                 DecodeInto(config, settings).config.EventBus.JetStream)
  /\ query' = [kind |-> "jetstream", version |-> version]
  /\ lookupRet' = NoLookupRet
  /\ loadState' = "crashed"
  /\ watcher' = "stopped"
  /\ UNCHANGED <<config, settings, file, loadErr, pending, lastChange, hookCalls,
                 hookErr>>

\* ------------------------------------------------------------ specifications

\* The template the callers of NewGCPCloudFunctionTrigger share.
PlainTemplate == [FunctionName |-> "f", Parameters |-> NilList, Payload |-> NilList]

\* Goroutines calling NewGCPCloudFunctionTrigger on one map, interleaved.
Init == CacheInit /\ DispatchInit(PlainTemplate) /\ ConfigInit

Next ==
  \E p \in Callers :
    \/ NewBegin(p)
    \/ NewLookup(p)
    \/ NewConstruct(p)
    \/ NewStore(p)
    \/ NewReturn(p)
    \/ \E q \in Callers : MapRace(p, q)

Spec == Init /\ [][Next]_vars

\* The same calls, none overlapping another.
NextSeq ==
  \E p \in Callers :
    \/ NewBeginAlone(p)
    \/ NewLookup(p)
    \/ NewConstruct(p)
    \/ NewStore(p)
    \/ NewReturn(p)

SpecSeq == Init /\ [][NextSeq]_vars

\* Dispatches of one trigger, for every template.
InitDispatch == CacheInit /\ ConfigInit /\ \E tmpl \in Templates : DispatchInit(tmpl)

NextDispatch ==
  \E d \in Dispatches :
    \/ DispatchBegin(d)
    \/ FetchResource(d)
    \/ ApplyResourceParameters(d)
    \/ ExecuteCall(d)
    \/ CtxCancel(d)
    \/ ExecuteReturn(d)
    \/ ApplyPolicy(d)

SpecDispatch == InitDispatch /\ [][NextDispatch]_vars

\* The version lookups on every GlobalConfig.
InitLookup ==
  /\ CacheInit
  /\ DispatchInit(PlainTemplate)
  /\ \E g \in GlobalConfigs(MaxVersions) : ConfigLoaded(g)

NextLookup ==
  \E version \in QueryVersions :
    \/ GetNatsStreamingVersion(version)
    \/ GetJetStreamVersion(version)

SpecLookup == InitLookup /\ [][NextLookup]_vars

\* The controller's use of the configuration: LoadConfig at startup, changes of
\* the file, viper's watcher goroutine, and lookups on the GlobalConfig by the
\* reconcilers.
NextConfig ==
  \/ LoadConfigRead
  \/ LoadConfigWatch
  \/ LoadConfigRegister
  \/ \E c \in FileContents : FileWrite(c)
  \/ WatchConfigRead
  \/ WatchConfigNoHandler
  \/ OnConfigChangeBegin
  \/ OnConfigChangeEnd
  \/ \E version \in QueryVersions :
       \/ GetNatsStreamingVersion(version)
       \/ GetJetStreamVersion(version)
       \/ GetNatsStreamingVersionRacing(version)
       \/ GetJetStreamVersionRacing(version)
       \/ GetNatsStreamingVersionFault(version)
       \/ GetJetStreamVersionFault(version)

SpecConfig == Init /\ [][NextConfig]_vars

\* ------------------------------------------------------------------ claims

\* The caller's current call missed and cloudfunctions.NewService built a client.
Constructed(p) ==
  /\ pc[p] \in {"store", "return", "done"}
  /\ ~ok[p]
  /\ attempts[p] = 1
  /\ pc[p] = "done" => ret[p].err = NoErr

\* The call returned a trigger and a nil error.
Succeeded(p) == pc[p] = "done" /\ ret[p].returned /\ ret[p].err = NoErr

\* C1: two interleaved first uses of one trigger name, neither finding an entry,
\* construct one client between them, and both callers get the cached client.
C1_OneConstructionPerName ==
  \A p, q \in Callers :
    (p # q /\ tname[p] = tname[q] /\ ~ok[p] /\ ~ok[q]) =>
      /\ ~(Constructed(p) /\ Constructed(q))
      /\ (Succeeded(p) /\ Succeeded(q)) =>
           /\ ret[p].trigger.Service = ret[q].trigger.Service
           /\ ret[p].trigger.Service = LookupClient(gcpClients, tname[p])

\* C2: whenever NewGCPCloudFunctionTrigger returns a trigger without error, on a
\* miss as on a hit, its Service is non-nil and is the client stored under the name.
C2_ReturnsStoredClient ==
  \A p \in Callers :
    Succeeded(p) =>
      /\ ~ret[p].trigger.isNil
      /\ ret[p].trigger.Service # NoClient
      /\ ret[p].trigger.Service = LookupClient(gcpClients, tname[p])

\* C3: over calls that do not overlap, a client is built at most once per trigger
\* name; a call for a name that has an entry loads no credentials, checks no file
\* and builds nothing; an entry is never removed nor rebound.
C3_BuiltOncePerName ==
  /\ [](\A n \in Names : built[n] <= 1)
  /\ [](\A p \in Callers :
          (pc[p] \in {"construct", "store"} \/ attempts[p] > 0 \/ envFault[p] # "nil")
            => ~ok[p])
  /\ [][\A p \in Callers :
          (pc[p] = "lookup" /\ tname[p] \in DOMAIN gcpClients)
            => (pc'[p] # "construct" /\ attempts'[p] = 0)]_vars
  /\ [][\A n \in DOMAIN gcpClients :
          n \in DOMAIN gcpClients' /\ gcpClients'[n] = gcpClients[n]]_vars

\* A call for a name that already had an entry returned the cached client.
C3_Witness ==
  \E p \in Callers :
    /\ Succeeded(p) /\ ok[p] /\ attempts[p] = 0
    /\ built[tname[p]] = 1
    /\ ret[p].trigger.Service = gcpClients[tname[p]]

\* The step by which the caller's call returns an error.
FailsNow(p) == pc[p] # "done" /\ pc'[p] = "done" /\ ret'[p].err # NoErr

\* C4: on a miss, an unreadable credentials path, a missing credentials file or a
\* failed client construction makes the call return a nil trigger and an error that
\* wraps the cause, after at most one construction attempt, with the map as it was
\* when the call began and no entry for the trigger name.
C4_FailureNotCached ==
  /\ [][\A p \in Callers :
          FailsNow(p) =>
            /\ ret'[p].trigger.isNil
            /\ ret'[p].err.cause = envFault'[p]
            /\ envFault'[p] # "nil"
            /\ attempts'[p] <= 1
            /\ gcpClients' = cacheAtCall
            /\ tname[p] \notin DOMAIN gcpClients']_vars
  /\ [](\A p \in Callers :
          (envFault[p] # "nil") =>
            (pc[p] = "done" /\ ret[p].trigger.isNil /\ ret[p].err.cause = envFault[p]))

\* A call failed in the construction of the client while another name was cached.
C4_Witness ==
  \E p \in Callers :
    /\ pc[p] = "done"
    /\ ret[p].err = Wrap("handshake failed", "failed to create a GCP service")
    /\ attempts[p] = 1
    /\ tname[p] \notin DOMAIN gcpClients
    /\ DOMAIN gcpClients # {}

\* C5: a ctx cancelled, or past its deadline, while the remote call is in flight
\* makes Execute return an error.
C5_CancelledExecuteFails ==
  \A d \in Dispatches :
    (stage[d] \in {"executed", "finished"} /\ ctxDone[d]) => execRet[d].err # NoErr

\* Execute has run on the dispatch's resource, as far as it got.
Executed(d) == stage[d] \in {"calling", "executed", "finished", "panic"}

\* C6: when the resource handed to Execute has a nil Payload, Execute returns a nil
\* response and the payload-not-specified error, without constructing a payload
\* and without calling the function.
C6_PayloadNotSpecified ==
  \A d \in Dispatches :
    (Executed(d) /\ execInput[d].kind = "gcp" /\ heap[execInput[d].ptr].Payload.isNil) =>
      /\ stage[d] = "executed"
      /\ execRet[d].resp.isNil
      /\ execRet[d].err = PayloadNotSpecifiedError
      /\ ~payloadBuilt[d]
      /\ remoteCalls[d] = 0
      /\ ~request[d].sent

\* Execute refused a resolved template without payload specification.
C6_Witness ==
  \E d \in Dispatches :
    /\ stage[d] = "executed"
    /\ execInput[d] = applied[d].res
    /\ heap[execInput[d].ptr].Payload.isNil
    /\ execRet[d].err = PayloadNotSpecifiedError

\* C7: a run of Execute issues the remote call at most once, and only for a GCP
\* cloud function resource with a payload specification whose payload was
\* constructed; for a resource of another kind, or when the payload construction
\* fails, Execute returns the failure and calls nothing.
C7_NoPartialExecution ==
  \A d \in Dispatches :
    LET r == execInput[d]
        spec == heap[r.ptr].Payload
    IN /\ remoteCalls[d] <= 1
       /\ request[d].sent <=> remoteCalls[d] = 1
       /\ remoteCalls[d] = 1 =>
            /\ r.kind = "gcp"
            /\ ~spec.isNil
            /\ payloadBuilt[d]
            /\ ConstructPayload(events[d], spec).err = NoErr
       /\ (Executed(d) /\ r.kind # "gcp") =>
            /\ stage[d] = "executed"
            /\ execRet[d].err = InterpretError
            /\ execRet[d].resp.isNil
            /\ remoteCalls[d] = 0
       /\ (Executed(d) /\ r.kind = "gcp" /\ ~spec.isNil
             /\ ConstructPayload(events[d], spec).err # NoErr) =>
            /\ stage[d] = "executed"
            /\ execRet[d].err = ConstructPayload(events[d], spec).err
            /\ execRet[d].resp.isNil
            /\ remoteCalls[d] = 0

\* One dispatch was refused for its resource kind, another for a payload binding
\* whose event is absent.
C7_Witness ==
  /\ \E d \in Dispatches :
       /\ stage[d] = "executed" /\ execInput[d] = ForeignResource
       /\ execRet[d].err = InterpretError
  /\ \E d \in Dispatches :
       /\ stage[d] = "executed" /\ payloadBuilt[d] /\ remoteCalls[d] = 0
       /\ execRet[d].err = MissingEventError

\* The step by which ApplyPolicy returns.
PolicyApplied(d) == stage[d] = "executed" /\ stage'[d] = "finished"

\* C8: ApplyPolicy returns nil for every response it is handed, whatever the
\* earlier dispatches returned, and changes nothing else.
C8_DefaultPolicySucceeds ==
  [][\A d \in Dispatches :
       PolicyApplied(d) =>
         /\ policyRet'[d] = NoErr
         /\ \A e \in Dispatches \ {d} : policyRet'[e] = policyRet[e]
         /\ UNCHANGED <<cacheVars, heap, events, service, resource, applied,
                        execInput, request, execRet, ctxDone, remoteCalls,
                        payloadBuilt, resolverCalled>>]_vars

\* ApplyPolicy accepted a response that carries the function's own error.
C8_Witness ==
  \E d \in Dispatches :
    /\ stage[d] = "finished"
    /\ execRet[d].resp = FunctionErrorResponse
    /\ policyRet[d] = NoErr

\* ApplyResourceParameters has returned.
Applied(d) == stage[d] \in {"applied", "calling", "executed", "finished", "panic"}

\* C9: ApplyResourceParameters calls the Parameter Resolver exactly when the
\* template's Parameters is declared (not nil); when it is not, the resource handed
\* in comes back as it is, with a nil error.
C9_DelegatesWhenDeclared ==
  \A d \in Dispatches :
    Applied(d) =>
      /\ resolverCalled[d] <=> ~heap[TemplateAddr].Parameters.isNil
      /\ heap[TemplateAddr].Parameters.isNil =>
           /\ applied[d].res = resource[d]
           /\ applied[d].err = NoErr
           /\ heap[d] = ZeroObj

\* Both branches were taken: one template without Parameters came back as it was.
C9_Witness ==
  \E d \in Dispatches :
    /\ stage[d] = "applied"
    /\ heap[TemplateAddr].Parameters.isNil
    /\ ~resolverCalled[d]
    /\ applied[d].res = GCPResource(TemplateAddr)

\* C10: the stages leave the static template and the events map of a dispatch in
\* progress as they are, so no dispatch sees the substitution of another.
C10_TemplateImmutable ==
  [][/\ heap'[TemplateAddr] = heap[TemplateAddr]
     /\ \A d \in Dispatches : stage'[d] # "begun" => events'[d] = events[d]]_vars

\* One dispatch holds a resolved template whose function name was substituted while
\* another has just fetched the template.
C10_Witness ==
  \E d, e \in Dispatches :
    /\ d # e
    /\ Applied(d) /\ resolverCalled[d] /\ applied[d].err = NoErr
    /\ heap[applied[d].res.ptr].FunctionName # heap[TemplateAddr].FunctionName
    /\ stage[e] = "fetched"
    /\ heap[resource[e].ptr].FunctionName = "f"

\* The entry of a name is the same before and after the step: absent, or present
\* with the same client.
SameEntry(n) ==
  /\ (n \in DOMAIN gcpClients) <=> (n \in DOMAIN gcpClients')
  /\ (n \in DOMAIN gcpClients) => gcpClients'[n] = gcpClients[n]

\* C11: every step of a call of NewGCPCloudFunctionTrigger for a trigger name leaves
\* the entry of every other name as it was, and the step by which a call fails
\* leaves the whole map, the process and every other caller's call as they were.
C11_OtherEntriesUntouched ==
  [][\A p \in Callers :
       /\ (pc'[p] # pc[p]) => \A n \in Names \ {tname'[p]} : SameEntry(n)
       /\ FailsNow(p) =>
            /\ \A n \in Names : SameEntry(n)
            /\ crashed' = crashed
            /\ \A q \in Callers \ {p} : pc'[q] = pc[q] /\ ret'[q] = ret[q]]_vars

\* A call for one name failed, and a call for another name was served its cached
\* entry.
C11_Witness ==
  \E p, q \in Callers :
    /\ tname[p] # tname[q]
    /\ pc[p] = "done" /\ ret[p].err # NoErr /\ envFault[p] # "nil"
    /\ tname[p] \notin DOMAIN gcpClients
    /\ Succeeded(q) /\ ok[q]
    /\ tname[q] \in DOMAIN gcpClients

\* C12: two runs of ApplyResourceParameters on the same template with equal events
\* return the same error and, on success, resolved templates with the same JSON,
\* whatever the dispatches did in between.
C12_SameInputsSameResult ==
  \A d, e \in Dispatches :
    (Applied(d) /\ Applied(e) /\ resource[d] = resource[e] /\ events[d] = events[e]) =>
      /\ applied[d].err = applied[e].err
      /\ applied[d].res.kind = applied[e].res.kind
      /\ resolvedBytes[d] = resolvedBytes[e]

\* Two dispatches resolved the template with equal events into two objects with
\* equal contents that differ from the template's; one of them has been through
\* Execute as well.
C12_Witness ==
  \E d, e \in Dispatches :
    /\ d # e
    /\ stage[d] = "executed" /\ stage[e] = "applied"
    /\ resolverCalled[d] /\ resolverCalled[e]
    /\ events[d] = events[e] /\ events[d] # NoEvents
    /\ applied[d].err = NoErr /\ applied[e].err = NoErr
    /\ applied[d].res # applied[e].res
    /\ resolvedBytes[d] = resolvedBytes[e]
    /\ resolvedBytes[d] # Marshal(heap[TemplateAddr])

\* The binding's source event is not in the events map.
SourceAbsent(b, evs) == b.src \notin DOMAIN evs

\* The function name after the bindings from the i-th on put their defaults in.
RECURSIVE DefaultsApplied(_, _, _)
DefaultsApplied(fn, items, i) ==
  IF i > Len(items) THEN fn
  ELSE DefaultsApplied(
         CASE items[i].op = "overwrite" -> items[i].dflt.s
           [] items[i].op = "append" -> fn \o items[i].dflt.s
           [] items[i].op = "prepend" -> items[i].dflt.s \o fn,
         items, i + 1)

\* C13: when a declared binding's source event is absent and the binding has no
\* default, ApplyResourceParameters returns a nil resource and an error, the
\* resolver's error for that binding when it is the first, and no resolved template
\* exists; when the absent events' bindings all have defaults, the defaults are what
\* the resolved template holds and the error is nil.
C13_MissingEventFails ==
  \A d \in Dispatches :
    LET params == heap[TemplateAddr].Parameters
        items == params.items
        evs == events[d]
    IN (Applied(d) /\ ~params.isNil) =>
         /\ (\E i \in 1..Len(items) :
               SourceAbsent(items[i], evs) /\ items[i].dflt = NoValue) =>
              /\ applied[d].err # NoErr
              /\ applied[d].res = NilResource
              /\ resolvedBytes[d] = NoBytes
              /\ heap[d] = ZeroObj
         /\ (Len(items) >= 1 /\ SourceAbsent(items[1], evs)
               /\ items[1].dflt = NoValue) =>
              applied[d].err = MissingEventError
         /\ (Len(items) >= 1 /\ \A i \in 1..Len(items) :
               SourceAbsent(items[i], evs) /\ items[i].dflt # NoValue) =>
              /\ applied[d].err = NoErr
              /\ applied[d].res = GCPResource(d)
              /\ heap[d].FunctionName =
                   DefaultsApplied(heap[TemplateAddr].FunctionName, items, 1)

\* A dispatch whose events map lacks the event a binding without default names
\* came back from ApplyResourceParameters with the resolver's error.
C13_Witness ==
  \E d \in Dispatches :
    /\ stage[d] = "applied"
    /\ resolverCalled[d]
    /\ Len(heap[TemplateAddr].Parameters.items) >= 1
    /\ SourceAbsent(heap[TemplateAddr].Parameters.items[1], events[d])
    /\ heap[TemplateAddr].Parameters.items[1].dflt = NoValue
    /\ applied[d] = [res |-> NilResource, err |-> MissingEventError]

\* C14: the remote call of Execute targets the FunctionName of the resource handed
\* in and carries the payload constructed from the dispatch's events and that
\* resource's Payload; Execute returns the call's response with a nil error, or a
\* nil response with the call's error, never both.
C14_ExecuteUsesResolved ==
  \A d \in Dispatches :
    LET t == heap[execInput[d].ptr] IN
    /\ (Executed(d) /\ remoteCalls[d] = 1) =>
         /\ request[d].fn = t.FunctionName
         /\ request[d].data = ConstructPayload(events[d], t.Payload).data
    /\ (stage[d] \in {"executed", "finished"} /\ remoteCalls[d] = 1) =>
         /\ callOut[d].err = NoErr =>
              execRet[d] = [resp |-> callOut[d].resp, err |-> NoErr]
         /\ callOut[d].err # NoErr =>
              execRet[d] = [resp |-> NilResponse, err |-> callOut[d].err]
    /\ stage[d] \in {"executed", "finished"} =>
         (execRet[d].resp.isNil <=> execRet[d].err # NoErr)

\* One Execute called the function under the substituted name with a payload and
\* returned its response; another got a response beside an error from the call and
\* returned the error alone.
C14_Witness ==
  /\ \E d \in Dispatches :
       /\ stage[d] = "executed" /\ remoteCalls[d] = 1
       /\ execInput[d] = applied[d].res /\ resolverCalled[d]
       /\ request[d].fn = heap[d].FunctionName
       /\ request[d].fn # heap[TemplateAddr].FunctionName
       /\ DOMAIN request[d].data # {}
       /\ execRet[d] = [resp |-> OkResponse, err |-> NoErr]
  /\ \E e \in Dispatches :
       /\ stage[e] = "executed" /\ remoteCalls[e] = 1
       /\ ~callOut[e].resp.isNil /\ callOut[e].err = CallError
       /\ execRet[e] = [resp |-> NilResponse, err |-> CallError]

\* C15: what FetchResource returns, and what a successful ApplyResourceParameters
\* returns for it on either branch, is a GCP cloud function resource, so an Execute
\* handed that result never fails to interpret the resource.
C15_StagesCompose ==
  \A d \in Dispatches :
    /\ stage[d] \notin {"idle", "begun"} => resource[d] = GCPResource(TemplateAddr)
    /\ (Applied(d) /\ applied[d].err = NoErr) =>
         /\ applied[d].res.kind = "gcp"
         /\ applied[d].res.ptr = IF resolverCalled[d] THEN d ELSE TemplateAddr
    /\ (Executed(d) /\ execInput[d] = applied[d].res) =>
         execRet[d].err # InterpretError

\* An Execute handed the struct that ApplyResourceParameters unmarshalled passed the
\* type check and called the function.
C15_Witness ==
  \E d \in Dispatches :
    /\ stage[d] = "calling"
    /\ resolverCalled[d]
    /\ execInput[d] = applied[d].res
    /\ execInput[d] # resource[d]
    /\ request[d].sent

\* The indices of the entries of a version list whose Version is the one asked for.
Matches(versions, version) == {i \in 1..Len(versions) : versions[i].Version = version}
First(S) == CHOOSE i \in S : \A j \in S : i <= j

\* C16: GetNatsStreamingVersion and GetJetStreamVersion return an entry and a nil
\* error exactly when the section is present and its list has an entry with the
\* Version asked for; the entry is then the first such in configured order; in
\* every other case they return a nil entry and an error; and a lookup leaves the
\* configuration as it is.
C16_VersionLookup ==
  /\ [](query.kind = "nats" =>
          LET present == ~config.EventBus.isNil /\ ~config.EventBus.NATS.isNil
              versions == config.EventBus.NATS.Versions
              found == Matches(versions, query.version)
          IN /\ (lookupRet.err = NoLookupErr) <=> (present /\ found # {})
             /\ (lookupRet.err = NoLookupErr) =>
                  /\ ~lookupRet.entry.isNil
                  /\ lookupRet.entry.Version = query.version
                  /\ lookupRet.entry.NatsStreamingImage =
                       versions[First(found)].NatsStreamingImage
             /\ (lookupRet.err # NoLookupErr) => lookupRet.entry.isNil)
  /\ [](query.kind = "jetstream" =>
          LET present == ~config.EventBus.isNil /\ ~config.EventBus.JetStream.isNil
              versions == config.EventBus.JetStream.Versions
              found == Matches(versions, query.version)
          IN /\ (lookupRet.err = NoLookupErr) <=> (present /\ found # {})
             /\ (lookupRet.err = NoLookupErr) =>
                  /\ ~lookupRet.entry.isNil
                  /\ lookupRet.entry.Version = query.version
                  /\ lookupRet.entry.NatsImage = versions[First(found)].NatsImage
             /\ (lookupRet.err # NoLookupErr) => lookupRet.entry.isNil)
  /\ [][(query' # query \/ lookupRet' # lookupRet) =>
          (config' = config /\ settings' = settings)]_vars

\* A lookup on a list that has the version asked for twice, with different images,
\* returned the first entry.
C16_Witness ==
  /\ query.kind = "nats"
  /\ ~config.EventBus.isNil /\ ~config.EventBus.NATS.isNil
  /\ Len(config.EventBus.NATS.Versions) = 2
  /\ config.EventBus.NATS.Versions[1].Version = query.version
  /\ config.EventBus.NATS.Versions[2].Version = query.version
  /\ config.EventBus.NATS.Versions[1].NatsStreamingImage #
       config.EventBus.NATS.Versions[2].NatsStreamingImage
  /\ lookupRet.err = NoLookupErr
  /\ lookupRet.entry.NatsStreamingImage = config.EventBus.NATS.Versions[1].NatsStreamingImage

\* The GlobalConfig a first load of the content gives.
FreshConfig(c) == DecodeInto(ZeroConfig, c).config

\* The lookups on g answer as the content c says.
AnswersPer(g, c) ==
  \A version \in QueryVersions :
    /\ NatsStreamingVersionOf(g, version) = NatsStreamingVersionOf(FreshConfig(c), version)
    /\ JetStreamVersionOf(g, version) = JetStreamVersionOf(FreshConfig(c), version)

\* LoadConfig has returned r and the watcher has nothing left to do.
Settled == loadState = "loaded" /\ watcher \in {"idle", "stopped"} /\ pending = "none"

\* The content parses and unmarshals without error.
Decodable(c) == Parses(c) /\ DecodeInto(ZeroConfig, c).err = NoErr

\* C17: once LoadConfig has returned and the watcher is at rest, the GlobalConfig
\* answers the lookups as the file's content says whenever that content unmarshals
\* successfully, and onErrorReloading was not called for it; for a changed content
\* that fails to unmarshal onErrorReloading was called once, with the error; it is
\* not called for the initial load, whose failure comes back as LoadConfig's error
\* with a nil configuration.
C17_ReloadKeepsCurrent ==
  /\ loadState = "failed" => (config.isNil /\ loadErr # NoErr /\ hookCalls = 0)
  /\ lastChange = "none" => hookCalls = 0
  /\ (Settled /\ Decodable(file)) =>
       (~config.isNil /\ hookCalls = 0 /\ AnswersPer(config, file))
  /\ (Settled /\ lastChange # "none" /\ Parses(file) /\ ~Decodable(file)) =>
       (hookCalls = 1 /\ hookErr = DecodeError)

\* The nats section was loaded with an entry, the file then changed to a content
\* without the section and was reloaded without error, and the lookup still finds
\* the entry.
C17_StaleSection ==
  /\ Settled
  /\ lastChange = "reloaded"
  /\ settings = file
  /\ file.nats = AbsentKey
  /\ NatsStreamingVersionOf(config, "v1").err = NoLookupErr
  /\ NatsStreamingVersionOf(FreshConfig(file), "v1").err = NatsNotFoundError

====
